---- MODULE Spec2Model ----
(***************************************************************************)
(* SatTracker.py: a prompt loop (main) that reads a line, and for a digit  *)
(* line drives fetch_tle -> calculate_satellite_position -> create_map,    *)
(* saves the map to "{id}_location_map.html" and opens it in a browser.    *)
(*                                                                         *)
(* A line is a sequence of characters, each character a one-element        *)
(* string; two non-ASCII characters are written by name:                   *)
(*   "SUP2"  U+00B2 SUPERSCRIPT TWO   (str.isdigit() true, int() rejects)  *)
(*   "AR3"   U+0663 ARABIC-INDIC DIGIT THREE (isdigit() true, int() = 3)   *)
(* A Python value is a record with a kind and a size n; a JSON object      *)
(* carries its members as a set of <<key, value>> pairs.                   *)
(***************************************************************************)
EXTENDS Integers, Sequences, FiniteSets, TLC

VARIABLES pc, started, line, user_input, satellite_id, resp, tle_data,
          position, satellite_name, sat_map, files, succeeded,
          stdout, calls, fetch_args, log, saved, overwrote, opened, exc

vars == <<pc, started, line, user_input, satellite_id, resp, tle_data,
          position, satellite_name, sat_map, files, succeeded,
          stdout, calls, fetch_args, log, saved, overwrote, opened, exc>>

\* The generated input lines have at most MaxLen characters.
MaxLen == 3

----------------------------------------------------------------------------
(* Characters and the str methods main applies to the line                 *)

Whitespace == {" ", "\t"}

AsciiDigits == {"0", "1", "2", "3", "4", "5", "6", "7", "8", "9"}

\* str.isdigit(): decimal digits of any script and the other Unicode digits
DigitChars == AsciiDigits \cup {"AR3", "SUP2"}

\* int(): the characters of Unicode category Nd
DecimalChars == AsciiDigits \cup {"AR3"}

DecimalValue(c) ==
    CASE c = "0" -> 0 [] c = "1" -> 1 [] c = "2" -> 2 [] c = "3" -> 3
      [] c = "4" -> 4 [] c = "5" -> 5 [] c = "6" -> 6 [] c = "7" -> 7
      [] c = "8" -> 8 [] c = "9" -> 9 [] c = "AR3" -> 3

LowerChar(c) ==
    CASE c = "E" -> "e" [] c = "X" -> "x" [] c = "I" -> "i" [] c = "T" -> "t"
      [] c = "A" -> "a" [] OTHER -> c

RECURSIVE lstrip(_)
lstrip(s) == IF s # <<>> /\ Head(s) \in Whitespace THEN lstrip(Tail(s)) ELSE s

RECURSIVE rstrip(_)
rstrip(s) ==
    IF s # <<>> /\ s[Len(s)] \in Whitespace
    THEN rstrip(SubSeq(s, 1, Len(s) - 1)) ELSE s

strip_left_only(s) == lstrip(s)

strip(s) == rstrip(lstrip(s))

lower(s) == [k \in 1..Len(s) |-> LowerChar(s[k])]

isdigit(s) == Len(s) > 0 /\ \A k \in 1..Len(s) : s[k] \in DigitChars

RECURSIVE DecimalFold(_, _)
DecimalFold(s, acc) ==
    IF s = <<>> THEN acc
    ELSE DecimalFold(Tail(s), acc * 10 + DecimalValue(Head(s)))

RECURSIVE OctalFold(_, _)
OctalFold(s, acc) ==
    IF s = <<>> THEN acc
    ELSE OctalFold(Tail(s), acc * 8 + DecimalValue(Head(s)))

int_leading_zero_octal(s) ==
    IF Len(s) > 0 /\ \A k \in 1..Len(s) : s[k] \in DecimalChars
    THEN [ok |-> TRUE,
          val |-> IF Len(s) > 1 /\ s[1] = "0"
                  THEN OctalFold(s, 0) ELSE DecimalFold(s, 0)]
    ELSE [ok |-> FALSE, val |-> 0]

\* int(s) for a line already stripped: the value, or ValueError (ok = FALSE)
int(s) ==
    IF Len(s) > 0 /\ \A k \in 1..Len(s) : s[k] \in DecimalChars
    THEN [ok |-> TRUE, val |-> DecimalFold(s, 0)]
    ELSE [ok |-> FALSE, val |-> 0]

DigitOf(d) ==
    CASE d = 0 -> "0" [] d = 1 -> "1" [] d = 2 -> "2" [] d = 3 -> "3"
      [] d = 4 -> "4" [] d = 5 -> "5" [] d = 6 -> "6" [] d = 7 -> "7"
      [] d = 8 -> "8" [] d = 9 -> "9"

\* str(n) of a non-negative int, as the f-strings format satellite_id
RECURSIVE IntToStr(_)
IntToStr(n) ==
    IF n < 10 THEN <<DigitOf(n)>>
    ELSE Append(IntToStr(n \div 10), DigitOf(n % 10))

FileName_last_digit(id) == <<DigitOf(id % 10), "_location_map.html">>

FileName(id) == Append(IntToStr(id), "_location_map.html")

FileUrl(name) == <<"file://", "CWD/">> \o name

----------------------------------------------------------------------------
(* Python values                                                           *)

None == [kind |-> "None", fields |-> {}, n |-> 0]

Obj(members) == [kind |-> "object", fields |-> members, n |-> Cardinality(members)]

FullTle == Obj({<<"name", "ISS (ZARYA)">>, <<"line1", "1 25544U">>,
                <<"line2", "2 25544">>})

JsonValues ==
    { FullTle,
      Obj({<<"line1", "1 25544U">>, <<"line2", "2 25544">>}),
      Obj({<<"name", "ISS (ZARYA)">>, <<"line2", "2 25544">>}),
      Obj({<<"name", "ISS (ZARYA)">>, <<"line1", "1 25544U">>}),
      Obj({}),
      [kind |-> "array", fields |-> {}, n |-> 0],
      [kind |-> "array", fields |-> {}, n |-> 1],
      [kind |-> "number", fields |-> {}, n |-> 0],
      [kind |-> "number", fields |-> {}, n |-> 5],
      [kind |-> "boolean", fields |-> {}, n |-> 0],
      [kind |-> "boolean", fields |-> {}, n |-> 1],
      [kind |-> "string", fields |-> {}, n |-> 3],
      None }

\* bool(v), as "if tle_data:", "if position:" and "if sat_map:" test it
Truthy_always(v) == TRUE

Truthy(v) ==
    CASE v.kind = "None" -> FALSE
      [] v.kind = "object" -> v.fields # {}
      [] v.kind \in {"array", "string", "tuple"} -> v.n > 0
      [] v.kind = "number" -> v.n # 0
      [] v.kind = "boolean" -> v.n = 1
      [] OTHER -> TRUE

HasKey(v, k) == v.kind = "object" /\ \E m \in v.fields : m[1] = k

Member(v, k) == (CHOOSE m \in v.fields : m[1] = k)[2]

\* dict.get(k, default)
Get(v, k, default) == IF HasKey(v, k) THEN Member(v, k) ELSE default

----------------------------------------------------------------------------
(* fetch_tle                                                               *)

\* The classes of the exceptions the try body of fetch_tle can raise, each
\* with the classes it is an instance of (requests.exceptions, json).
ExceptionClasses(e) ==
    CASE e = "HTTPError" -> {"HTTPError", "RequestException"}
      [] e = "ConnectionError" -> {"ConnectionError", "RequestException"}
      [] e = "ConnectTimeout" ->
             {"ConnectTimeout", "ConnectionError", "Timeout", "RequestException"}
      [] e = "ReadTimeout" -> {"ReadTimeout", "Timeout", "RequestException"}
      [] e = "TooManyRedirects" -> {"TooManyRedirects", "RequestException"}
      \* response.json() of requests >= 2.27
      [] e = "requests.JSONDecodeError" ->
             {"requests.JSONDecodeError", "InvalidJSONError", "RequestException",
              "json.JSONDecodeError", "ValueError"}
      \* response.json() of requests < 2.27
      [] e = "json.JSONDecodeError" -> {"json.JSONDecodeError", "ValueError"}

\* The except clauses, in the order they are written
ExceptClauses ==
    <<"HTTPError", "ConnectionError", "Timeout", "RequestException",
      "json.JSONDecodeError">>

\* The first clause that matches e, 0 when none does
Handler(e) ==
    IF \E k \in 1..Len(ExceptClauses) : ExceptClauses[k] \in ExceptionClasses(e)
    THEN CHOOSE k \in 1..Len(ExceptClauses) :
             /\ ExceptClauses[k] \in ExceptionClasses(e)
             /\ \A j \in 1..(k - 1) : ExceptClauses[j] \notin ExceptionClasses(e)
    ELSE 0

TransportFailures ==
    {"ConnectionError", "ConnectTimeout", "ReadTimeout", "TooManyRedirects"}

Statuses == {200, 300, 404, 500}

\* What the network can answer to the GET: requests.get raises, or returns a
\* response with a status and a body that is JSON text or is not.
Responses ==
    { [transport |-> e, status |-> 0, valid |-> FALSE, json |-> None,
       decode_exc |-> "none"] : e \in TransportFailures }
    \cup
    { [transport |-> "ok", status |-> st, valid |-> TRUE, json |-> j,
       decode_exc |-> "none"] : st \in Statuses, j \in JsonValues }
    \cup
    { [transport |-> "ok", status |-> st, valid |-> FALSE, json |-> None,
       decode_exc |-> d] :
         st \in Statuses, d \in {"requests.JSONDecodeError", "json.JSONDecodeError"} }

NoResponse ==
    [transport |-> "unsent", status |-> 0, valid |-> FALSE, json |-> None,
     decode_exc |-> "none"]

\* The exception the try body raises on r, "none" when it runs to its return
Raised(r) ==
    IF r.transport # "ok" THEN r.transport                      \* requests.get
    ELSE IF r.status >= 400 /\ r.status < 600 THEN "HTTPError"  \* raise_for_status
    ELSE IF ~r.valid THEN r.decode_exc                          \* response.json
    ELSE "none"

fetch_tle(r) ==
    LET e == Raised(r) IN
    IF e = "none"
    THEN [ret |-> r.json, branch |-> "none", escaped |-> "none"]
    ELSE IF Handler(e) = 0
         THEN [ret |-> None, branch |-> "none", escaped |-> e]
         ELSE [ret |-> None, branch |-> ExceptClauses[Handler(e)], escaped |-> "none"]

----------------------------------------------------------------------------
(* calculate_satellite_position and create_map                             *)

Tuple2(a, b) == [kind |-> "tuple", fields |-> {<<"0", a>>, <<"1", b>>}, n |-> 2]

\* What the propagation library can do with the element lines: raise, or
\* yield a sub-satellite point (latitude, longitude in degrees).
PropagatorOutcomes ==
    { [raises |-> TRUE, point |-> None],
      [raises |-> FALSE, point |-> Tuple2("51.50", "-0.12")],
      [raises |-> FALSE, point |-> Tuple2("0.0", "0.0")] }

\* tle_data['line1'], ['line2'], ['name'] raise KeyError or TypeError when
\* tle_data is no dict or lacks the key; every exception yields None.
calculate_satellite_position(data, lib) ==
    IF ~(HasKey(data, "line1") /\ HasKey(data, "line2") /\ HasKey(data, "name"))
    THEN None
    ELSE IF lib.raises THEN None ELSE lib.point

\* The mapping library raises, or builds the map with its two markers.
create_map(pos, name, raises) ==
    IF raises THEN None
    ELSE [kind |-> "Map",
          fields |-> {<<"location", Member(pos, "0")>>, <<"location", Member(pos, "1")>>,
                      <<"popup", name>>},
          n |-> 1]

----------------------------------------------------------------------------
(* main                                                                    *)

Unbound == [kind |-> "unbound", fields |-> {}, n |-> 0]

PyInt(i) == [kind |-> "int", fields |-> {}, n |-> i]

ExitWord == <<"e", "x", "i", "t">>

GoodbyeMessage == "Exiting the program. Goodbye!"

InvalidMessage == "Invalid input. Please enter a numeric Satellite ID."

\* The line main prints when the stage's result is falsy
FailureMessage(stage) ==
    CASE stage = "fetch_tle" -> "Failed to retrieve TLE data."
      [] stage = "calculate_satellite_position" ->
             "Failed to calculate satellite position."
      [] stage = "create_map" -> "Failed to create the map."

\* The lines a user can type: every line of at most MaxLen characters over
\* GenAlphabet, and some others.
GenAlphabet == {"1", " ", "a"}

RECURSIVE SeqsUpTo(_, _)
SeqsUpTo(S, k) ==
    IF k = 0 THEN {<<>>}
    ELSE LET shorter == SeqsUpTo(S, k - 1)
         IN shorter \cup {Append(q, c) : q \in shorter, c \in S}

LongerLines ==
    { <<"e", "x", "i", "t">>,
      <<" ", "E", "X", "I", "T", " ">>,
      <<"\t", "E", "x", "i", "t", " ", "\t">>,
      <<"e", "x", "i", "t", "1">>,
      <<"e", " ", "x", "i", "t">>,
      <<"-", "1">>,
      <<"+", "1">>,
      <<"1", ".", "5">>,
      <<"0", "1", "1">>,
      <<" ", "0", "0", "1", "\t">>,
      <<"SUP2">>,
      <<" ", "1", "SUP2">>,
      <<"AR3">> }

Lines == SeqsUpTo(GenAlphabet, MaxLen) \cup LongerLines

Init ==
    /\ pc = "Prompting"
    /\ started = FALSE
    /\ line = <<>>
    /\ user_input = <<>>
    /\ satellite_id = Unbound
    /\ resp = NoResponse
    /\ tle_data = Unbound
    /\ position = Unbound
    /\ satellite_name = "<unbound>"
    /\ sat_map = Unbound
    /\ files = {}
    /\ succeeded = {}
    /\ stdout = <<>>
    /\ calls = <<>>
    /\ fetch_args = <<>>
    /\ log = <<>>
    /\ saved = <<>>
    /\ overwrote = FALSE
    /\ opened = <<>>
    /\ exc = "none"

\* Lines 144-154: one prompt, the line read, and the two tests on it.  The
\* names an iteration binds before it reads them start each iteration unbound,
\* and the records of what the iteration did start empty.
ReadInput(l) ==
    /\ pc = "Prompting"
    /\ started' = TRUE
    /\ line' = l
    /\ user_input' = strip(l)
    /\ resp' = NoResponse
    /\ tle_data' = Unbound
    /\ position' = Unbound
    /\ satellite_name' = "<unbound>"
    /\ sat_map' = Unbound
    /\ calls' = <<>>
    /\ fetch_args' = <<>>
    /\ log' = <<>>
    /\ saved' = <<>>
    /\ overwrote' = FALSE
    /\ opened' = <<>>
    /\ UNCHANGED <<files, succeeded>>
    /\ IF lower(user_input') = ExitWord
       THEN /\ stdout' = <<GoodbyeMessage>>
            /\ pc' = "Terminated"
            /\ satellite_id' = Unbound
            /\ exc' = "none"
       ELSE IF ~isdigit(user_input')
       THEN /\ stdout' = <<InvalidMessage>>
            /\ pc' = "Prompting"
            /\ satellite_id' = Unbound
            /\ exc' = "none"
       ELSE IF ~int(user_input').ok
       THEN /\ stdout' = <<>>
            /\ pc' = "Crashed"
            /\ satellite_id' = Unbound
            /\ exc' = "ValueError"
       ELSE /\ stdout' = <<>>
            /\ pc' = "Fetching"
            /\ satellite_id' = PyInt(int(user_input').val)
            /\ exc' = "none"

\* Lines 156-158 and 181-182: the call of fetch_tle and the test of its result
FetchTle(r) ==
    /\ pc = "Fetching"
    /\ resp' = r
    /\ fetch_args' = Append(fetch_args, satellite_id.n)
    /\ LET got == fetch_tle(r) IN
       IF got.escaped # "none"
       THEN /\ pc' = "Crashed"
            /\ exc' = got.escaped
            /\ UNCHANGED <<tle_data, calls, log, stdout>>
       ELSE /\ tle_data' = got.ret
            /\ calls' = Append(calls, [fn |-> "fetch_tle", absent |-> got.ret = None])
            /\ log' = IF got.branch = "none" THEN log ELSE Append(log, got.branch)
            /\ exc' = "none"
            /\ IF Truthy(got.ret)
               THEN pc' = "Calculating" /\ stdout' = stdout
               ELSE /\ pc' = "Prompting"
                    /\ stdout' = stdout \o <<FailureMessage("fetch_tle"), "">>
    /\ UNCHANGED <<started, line, user_input, satellite_id, position,
                   satellite_name, sat_map, files, succeeded, saved, overwrote,
                   opened>>

\* Lines 159-162 and 179-180
CalculatePosition(lib) ==
    /\ pc = "Calculating"
    /\ LET pos == calculate_satellite_position(tle_data, lib) IN
       /\ position' = pos
       /\ calls' = Append(calls, [fn |-> "calculate_satellite_position",
                                  absent |-> pos = None])
       /\ log' = IF pos = None THEN Append(log, "Error calculating satellite position")
                 ELSE log
       /\ IF Truthy(pos)
          THEN /\ satellite_name' = Get(tle_data, "name", "Unknown Satellite")
               /\ pc' = "Rendering"
               /\ stdout' = stdout
          ELSE /\ satellite_name' = satellite_name
               /\ pc' = "Prompting"
               /\ stdout' = Append(stdout, FailureMessage("calculate_satellite_position"))
    /\ UNCHANGED <<started, line, user_input, satellite_id, resp, tle_data,
                   sat_map, files, succeeded, fetch_args, saved, overwrote,
                   opened, exc>>

\* Lines 165-166 and 177-178
CreateMap(raises) ==
    /\ pc = "Rendering"
    /\ LET m == create_map(position, satellite_name, raises) IN
       /\ sat_map' = m
       /\ calls' = Append(calls, [fn |-> "create_map", absent |-> m = None])
       /\ log' = IF m = None THEN Append(log, "Error creating map") ELSE log
       /\ IF Truthy(m)
          THEN pc' = "Saving" /\ stdout' = stdout
          ELSE /\ pc' = "Prompting"
               /\ stdout' = Append(stdout, FailureMessage("create_map"))
    /\ UNCHANGED <<started, line, user_input, satellite_id, resp, tle_data,
                   position, satellite_name, files, succeeded, fetch_args,
                   saved, overwrote, opened, exc>>

\* Lines 168-176: sat_map.save opens the file for writing, which the file
\* system can refuse (OSError, no file written) and which replaces a file of
\* that name; then the three prints and webbrowser.open.
SaveAndOpen(io_error) ==
    /\ pc = "Saving"
    /\ IF io_error
       THEN /\ pc' = "Crashed"
            /\ exc' = "OSError"
            /\ UNCHANGED <<files, succeeded, saved, overwrote, opened, stdout>>
       ELSE LET map_filename == FileName(satellite_id.n) IN
            /\ files' = files \cup {map_filename}
            /\ succeeded' = succeeded \cup {satellite_id.n}
            /\ saved' = Append(saved, map_filename)
            /\ overwrote' = (map_filename \in files)
            /\ stdout' = stdout \o
                   <<"", "TLE Data Retrieved Successfully for {satellite_name}:",
                     "json.dumps(tle_data, indent=4)",
                     "", "Satellite location map has been saved to {map_filename}.">>
            /\ opened' = Append(opened, FileUrl(map_filename))
            /\ pc' = "Prompting"
            /\ exc' = "none"
    /\ UNCHANGED <<started, line, user_input, satellite_id, resp, tle_data,
                   position, satellite_name, sat_map, calls, fetch_args, log>>

Next ==
    \/ \E l \in Lines : ReadInput(l)
    \/ \E r \in Responses : FetchTle(r)
    \/ \E lib \in PropagatorOutcomes : CalculatePosition(lib)
    \/ \E raises \in BOOLEAN : CreateMap(raises)
    \/ \E io_error \in BOOLEAN : SaveAndOpen(io_error)

Spec == Init /\ [][Next]_vars

----------------------------------------------------------------------------
(* The vocabulary of the properties, stated on the raw line and on what    *)
(* the iteration recorded, without the operators main is modelled with     *)

Blank(c) == c = " " \/ c = "\t"

\* l is "exit" in any letter case between two runs of blanks
IsExitLine(l) ==
    \E a \in 0..Len(l) :
       /\ Len(l) >= a + 4
       /\ \A k \in 1..a : Blank(l[k])
       /\ \A k \in (a + 5)..Len(l) : Blank(l[k])
       /\ l[a + 1] \in {"e", "E"}
       /\ l[a + 2] \in {"x", "X"}
       /\ l[a + 3] \in {"i", "I"}
       /\ l[a + 4] \in {"t", "T"}

ZeroToNine == <<"0", "1", "2", "3", "4", "5", "6", "7", "8", "9">>

IsZeroToNine(c) == \E d \in 1..10 : ZeroToNine[d] = c

\* l[a..b] is a non-empty run of the digits 0-9 between two runs of blanks
DigitRun(l, a, b) ==
    /\ a <= b
    /\ \A k \in 1..(a - 1) : Blank(l[k])
    /\ \A k \in (b + 1)..Len(l) : Blank(l[k])
    /\ \A k \in a..b : IsZeroToNine(l[k])

IsDigitLine(l) == \E a, b \in 1..Len(l) : DigitRun(l, a, b)

RECURSIVE Pow10(_)
Pow10(k) == IF k = 0 THEN 1 ELSE 10 * Pow10(k - 1)

RECURSIVE PlaceValueSum(_, _, _)
PlaceValueSum(l, a, b) ==
    IF a > b THEN 0
    ELSE ((CHOOSE d \in 1..10 : ZeroToNine[d] = l[a]) - 1) * Pow10(b - a)
         + PlaceValueSum(l, a + 1, b)

\* The integer the digits of a digit line denote
Denoted(l) ==
    LET ab == CHOOSE p \in (1..Len(l)) \X (1..Len(l)) : DigitRun(l, p[1], p[2])
    IN PlaceValueSum(l, ab[1], ab[2])

Stages == <<"fetch_tle", "calculate_satellite_position", "create_map">>

StageFailureText(fn) ==
    CASE fn = "fetch_tle" -> "Failed to retrieve TLE data."
      [] fn = "calculate_satellite_position" ->
             "Failed to calculate satellite position."
      [] fn = "create_map" -> "Failed to create the map."

IsFailureText(m) == \E k \in 1..3 : m = StageFailureText(Stages[k])

FailuresPrinted == SelectSeq(stdout, IsFailureText)

FetchReturned == resp.transport # "unsent" /\ pc # "Fetching"

\* The response is a 2xx one whose body parses as JSON
ParsedOk(r) ==
    r.transport = "ok" /\ r.status >= 200 /\ r.status < 300 /\ r.valid

----------------------------------------------------------------------------
(* The properties                                                          *)

\* C1: once the line read is "exit" (any letter case, blanks around it), the
\* loop is Terminated: only the goodbye line was printed, no stage was called,
\* no file written, no browser opened, and no step (so no prompt) follows.
C1_ExitTerminates ==
    (started /\ IsExitLine(line)) =>
        /\ pc = "Terminated"
        /\ stdout = <<GoodbyeMessage>>
        /\ calls = <<>>
        /\ fetch_args = <<>>
        /\ saved = <<>>
        /\ opened = <<>>
        /\ ~ENABLED Next

C1_Witness ==
    /\ pc = "Terminated"
    /\ line = <<"\t", "E", "x", "i", "t", " ", "\t">>

\* C2: a line that is neither "exit" nor a run of the digits 0-9 gets the
\* validation message, no call of fetch_tle, and the loop stays in Prompting.
C2_NonDigitRejected ==
    (started /\ ~IsExitLine(line) /\ ~IsDigitLine(line)) =>
        /\ pc = "Prompting"
        /\ stdout = <<InvalidMessage>>
        /\ fetch_args = <<>>
        /\ calls = <<>>

C4_FetchFailuresAbsent ==
    (/\ FetchReturned
     /\ \/ resp.transport \in {"ConnectionError", "ConnectTimeout", "ReadTimeout"}
        \/ resp.transport = "ok" /\ ~(resp.status >= 200 /\ resp.status < 300)
        \/ resp.transport = "ok" /\ ~resp.valid)
    => (tle_data = None /\ exc = "none")

\* C5: the loop ends only on "exit": no exception leaves it, whatever the
\* line and whatever the stages do.
C5_OnlyExitEndsLoop ==
    /\ pc # "Crashed"
    /\ exc = "none"
    /\ pc = "Terminated" => IsExitLine(line)

\* C6: the stages are called in the order fetch_tle, calculate_satellite_position,
\* create_map, each only after the one before returned a value other than
\* None; once a stage returns None it is the last one called, its failure line
\* is the only failure line printed, nothing is saved or opened and the loop
\* is back in Prompting; a file is saved only after all three returned values.
C6_StagesInOrder ==
    /\ Len(calls) <= 3
    /\ \A k \in 1..Len(calls) :
          /\ calls[k].fn = Stages[k]
          /\ k > 1 => ~calls[k - 1].absent
          /\ calls[k].absent =>
                /\ k = Len(calls)
                /\ pc = "Prompting"
                /\ FailuresPrinted = <<StageFailureText(calls[k].fn)>>
                /\ saved = <<>>
                /\ opened = <<>>
    /\ (saved # <<>> \/ opened # <<>>) =>
          (Len(calls) = 3 /\ \A k \in 1..3 : ~calls[k].absent)

C6_Witness ==
    /\ Len(calls) = 3
    /\ calls[3].absent
    /\ stdout = <<"Failed to create the map.">>

\* C7: the files written are one per identifier that had a successful run,
\* however many runs each had: a rerun replaces the identifier's file.
C7_OneFilePerIdentifier ==
    /\ Cardinality(files) = Cardinality(succeeded)
    /\ \A k \in 1..Len(saved) : saved[k] \in files

C7_Witness ==
    /\ overwrote
    /\ saved # <<>>
    /\ line = <<" ", "0", "0", "1", "\t">>
    /\ Cardinality(succeeded) = 2

\* C8: each failure of fetch_tle is logged by the branch of its own kind:
\* connection, timeout (a connect timeout included), HTTP status, decode.
C8_FailureClassifiedByKind ==
    FetchReturned =>
        /\ resp.transport = "ConnectionError" => log = <<"ConnectionError">>
        /\ resp.transport \in {"ConnectTimeout", "ReadTimeout"} => log = <<"Timeout">>
        /\ (resp.transport = "ok" /\ ~(resp.status >= 200 /\ resp.status < 300))
              => log = <<"HTTPError">>
        /\ (resp.transport = "ok" /\ resp.status >= 200 /\ resp.status < 300
              /\ ~resp.valid) => log = <<"json.JSONDecodeError">>

\* C9: the retrieval failure line is printed only when fetch_tle returned
\* None, and every value parsed from a 2xx response goes on to
\* calculate_satellite_position (a body of null, which parses to None itself,
\* is left out here: it cannot be told from the absent result).
C9_RetrievalFailureOnlyWhenAbsent ==
    /\ (FailuresPrinted # <<>> /\ FailuresPrinted[1] = StageFailureText("fetch_tle"))
          => (calls # <<>> /\ calls[1].absent)
    /\ (FetchReturned /\ ParsedOk(resp) /\ resp.json # None) =>
          (pc = "Calculating" \/ Len(calls) >= 2)

\* C10: create_map is called only for a JSON object with name, line1 and
\* line2, with that object's name and never the fallback; a parsed response
\* lacking one of the three ends the iteration with the position failure line.
C10_MapOnlyForCompleteObjects ==
    /\ (Len(calls) >= 3 \/ pc = "Rendering") =>
          /\ HasKey(tle_data, "name")
          /\ HasKey(tle_data, "line1")
          /\ HasKey(tle_data, "line2")
          /\ satellite_name = Member(tle_data, "name")
          /\ satellite_name # "Unknown Satellite"
    /\ (/\ FetchReturned
        /\ ParsedOk(resp)
        /\ resp.json.kind = "object"
        /\ \E key \in {"name", "line1", "line2"} : ~HasKey(resp.json, key)
        /\ pc = "Prompting")
       => FailuresPrinted = <<StageFailureText("calculate_satellite_position")>>

====
